---- MODULE Spec2Model ----
(***************************************************************************)
(* Model of plotutils' PositioningAxes (src/axpositioning.py): a rectangle *)
(* stored as lower-left bounds (xll, yll, w, h) and edited through an      *)
(* anchor point, with an optional aspect lock.                             *)
(*                                                                         *)
(* Numbers.  The source computes with floats.  A float is modelled as an   *)
(* exact extended rational <<n, d>> in lowest terms: d > 0 is the finite   *)
(* value n/d, <<1, 0>> and <<-1, 0>> are +inf and -inf, <<0, 0>> is nan.   *)
(* Rounding of IEEE doubles and the sign of zero are not modelled: every   *)
(* equality below is an equality of real numbers.                          *)
(***************************************************************************)
EXTENDS Integers, Sequences, FiniteSets, TLC

VARIABLES bounds, anchor, locked, figsize, last, pre, hist, steps

(* AxPositioningEditor: the collection of boxes, the editor's anchor name, *)
(* the radio button that is checked, the last call and the editor before   *)
(* it.                                                                     *)
VARIABLES axes, edAnchor, checked, edLast, edPre

(* NumField: the value, the last valid value, the text shown, the values   *)
(* emitted with the changed signal, the last call and the field before it. *)
VARIABLES val, last_valid, text, signals, fldLast, fldPre

boxVars == <<bounds, anchor, locked, figsize, last, pre, hist>>

fldVars == <<val, last_valid, text, signals, fldLast, fldPre>>

edVars == <<axes, edAnchor, checked, edLast, edPre>>

vars == <<bounds, anchor, locked, figsize, last, pre, hist, steps,
          axes, edAnchor, checked, edLast, edPre,
          val, last_valid, text, signals, fldLast, fldPre>>

(* Longest sequence of calls made on one box. *)
MaxSteps == 2

(* Longest text typed into a field. *)
MaxLen == 2

----------------------------------------------------------------------------
(* Float arithmetic                                                        *)

Abs(n) == IF n < 0 THEN -n ELSE n

Sgn(n) == IF n < 0 THEN -1 ELSE IF n > 0 THEN 1 ELSE 0

RECURSIVE GCD(_, _)
GCD(a, b) == IF b = 0 THEN a ELSE GCD(b, a % b)

Norm(n, d) ==
  IF d = 0 THEN <<Sgn(n), 0>>
  ELSE LET g == GCD(Abs(n), Abs(d))
       IN  <<(Sgn(d) * n) \div g, Abs(d) \div g>>

Q(n, d) == Norm(n, d)

Zero == <<0, 1>>

One == <<1, 1>>

NaN == <<0, 0>>

(* A tuple element that is not a number, such as a string. *)
NonNumeric == <<0, -1>>

IsNumber(e) == e[2] >= 0

Finite(e) == e[2] > 0

FNeg(a) == <<-a[1], a[2]>>

FAdd(a, b) ==
  IF a[2] = 0 /\ b[2] = 0
  THEN IF a = b THEN a ELSE NaN
  ELSE Norm(a[1] * b[2] + b[1] * a[2], a[2] * b[2])

FSub(a, b) == FAdd(a, FNeg(b))

FMul(a, b) == Norm(a[1] * b[1], a[2] * b[2])

(* a / b as numpy's float64 computes it: x/0 is inf or nan. *)
FDiv(a, b) == FMul(a, Norm(b[2], b[1]))

FiniteAll(b) == \A i \in 1..Len(b) : Finite(b[i])

----------------------------------------------------------------------------
(* PositioningAxes                                                         *)
(* An object is the record self = [bounds, anchor, locked, figsize]; a     *)
(* method maps self and its arguments to the set of outcomes the call can  *)
(* have, each [err |-> exception name or "ok", self |-> object after].     *)

Ok(self) == [err |-> "ok", self |-> self]

Raise(e, self) == [err |-> e, self |-> self]

(* The values a caller may pass as anchor: strings, tuples, and values of  *)
(* other types.  elems are the elements of a tuple or list.                *)
Str(s) == [kind |-> "str", name |-> s, elems |-> <<>>]

Tuple(t) == [kind |-> "tuple", name |-> "", elems |-> t]

List(t) == [kind |-> "list", name |-> "", elems |-> t]

None == [kind |-> "none", name |-> "", elems |-> <<>>]

posdict ==
  [ll |-> <<Zero, Zero>>, ul |-> <<Zero, One>>, ur |-> <<One, One>>,
   lr |-> <<One, Zero>>, c |-> <<Q(1, 2), Q(1, 2)>>]

(* Reading self._anchor_point[i] and using it as a factor: the exception   *)
(* this raises, or "ok".                                                   *)
AnchorErr(a, i) ==
  IF Len(a) < i THEN "IndexError"
  ELSE IF ~IsNumber(a[i]) THEN "TypeError"
  ELSE "ok"

(* Mutant: the box is moved so that the point under the old anchor lies   *)
(* under the new one.                                                      *)
set_anchor_point_moving(self, pos) ==
  IF pos.kind = "str" /\ pos.name \notin DOMAIN posdict
  THEN {Raise("KeyError", self)}
  ELSE IF pos.kind \notin {"str", "tuple"}
  THEN {Raise("TypeError", self)}
  ELSE LET a0 == self.anchor
           a1 == IF pos.kind = "str" THEN posdict[pos.name] ELSE pos.elems
           b  == self.bounds
       IN  {Ok([self EXCEPT
                  !.anchor = a1,
                  !.bounds =
                    IF AnchorErr(a0, 1) = "ok" /\ AnchorErr(a1, 1) = "ok"
                    THEN <<FAdd(b[1], FMul(b[3], FSub(a0[1], a1[1]))), b[2], b[3], b[4]>>
                    ELSE b])}

(* Mutant: a tuple with a coordinate outside [0, 1] is rejected. *)
set_anchor_point_unit(self, pos) ==
  IF pos.kind = "str" /\ pos.name \notin DOMAIN posdict
  THEN {Raise("KeyError", self)}
  ELSE IF pos.kind \notin {"str", "tuple"}
  THEN {Raise("TypeError", self)}
  ELSE IF /\ pos.kind = "tuple"
          /\ \E i \in 1..Len(pos.elems) :
               /\ Finite(pos.elems[i])
               /\ (pos.elems[i][1] < 0 \/ pos.elems[i][1] > pos.elems[i][2])
  THEN {Raise("ValueError", self)}
  ELSE {Ok([self EXCEPT !.anchor =
              IF pos.kind = "str" THEN posdict[pos.name] ELSE pos.elems])}

set_anchor_point(self, pos) ==
  IF pos.kind = "str" /\ pos.name \notin DOMAIN posdict
  THEN {Raise("KeyError", self)}
  ELSE IF pos.kind \notin {"str", "tuple"}
  THEN {Raise("TypeError", self)}
  ELSE {Ok([self EXCEPT !.anchor =
              IF pos.kind = "str" THEN posdict[pos.name] ELSE pos.elems])}

(* Mutant: the offset is added. *)
x2xll_add(self, x) == FAdd(x, FMul(self.bounds[3], self.anchor[1]))

(* Mutant: the offset uses the anchor's y component. *)
x2xll_yanchor(self, x) ==
  IF AnchorErr(self.anchor, 2) = "ok"
  THEN FSub(x, FMul(self.bounds[3], self.anchor[2]))
  ELSE FSub(x, FMul(self.bounds[3], self.anchor[1]))

x2xll(self, x) == FSub(x, FMul(self.bounds[3], self.anchor[1]))

(* Mutant: the offset is subtracted. *)
xll2x_sub(self, xll) == FSub(xll, FMul(self.bounds[3], self.anchor[1]))

xll2x(self, xll) == FAdd(xll, FMul(self.bounds[3], self.anchor[1]))

y2yll(self, y) == FSub(y, FMul(self.bounds[4], self.anchor[2]))

yll2y(self, yll) == FAdd(yll, FMul(self.bounds[4], self.anchor[2]))

get_x(self) == xll2x(self, self.bounds[1])

get_y(self) == yll2y(self, self.bounds[2])

get_w(self) == self.bounds[3]

get_h(self) == self.bounds[4]

set_x(self, x) ==
  IF AnchorErr(self.anchor, 1) # "ok"
  THEN {Raise(AnchorErr(self.anchor, 1), self)}
  ELSE {Ok([self EXCEPT !.bounds =
              <<x2xll(self, x), self.bounds[2], self.bounds[3], self.bounds[4]>>])}

set_y(self, y) ==
  IF AnchorErr(self.anchor, 2) # "ok"
  THEN {Raise(AnchorErr(self.anchor, 2), self)}
  ELSE {Ok([self EXCEPT !.bounds =
              <<self.bounds[1], y2yll(self, y), self.bounds[3], self.bounds[4]>>])}

figaspect(self) == FDiv(self.figsize[1], self.figsize[2])

aspect(self) == FMul(figaspect(self), FDiv(self.bounds[3], self.bounds[4]))

(* Mutant: the figure's ratio is returned. *)
axaspect_fig(self) == figaspect(self)

axaspect(self) == FDiv(figaspect(self), aspect(self))

(* A division by zero made while evaluating v / self.axaspect or           *)
(* v * self.axaspect.  Python floats raise ZeroDivisionError there; numpy  *)
(* float64 operands (FDiv) give inf or nan and go on.                      *)
AxaspectDivZero(self) == self.bounds[4] = Zero \/ aspect(self) = Zero

(* ll + a * (old - new): the correction of a lower-left coordinate that    *)
(* keeps the anchor point in place when a size goes from old to new.       *)
(* Mutant: no correction. *)
adjust_none(ll, a, old, new) == ll

(* Mutant: the correction has the wrong sign. *)
adjust_rev(ll, a, old, new) == FAdd(ll, FMul(a, FSub(new, old)))

adjust(ll, a, old, new) == FAdd(ll, FMul(a, FSub(old, new)))

set_w(self, w) ==
  LET xll == self.bounds[1]
      yll == self.bounds[2]
      w0  == self.bounds[3]
      h0  == self.bounds[4]
      a   == self.anchor
  IN
  IF AnchorErr(a, 1) # "ok" THEN {Raise(AnchorErr(a, 1), self)}
  ELSE
    LET xll1 == adjust(xll, a[1], w0, w) IN
    IF ~self.locked
    THEN {Ok([self EXCEPT !.bounds = <<xll1, yll, w, h0>>])}
    ELSE
      LET h1   == FDiv(w, axaspect(self))
          rest == IF AnchorErr(a, 2) # "ok"
                  THEN Raise(AnchorErr(a, 2), self)
                  ELSE Ok([self EXCEPT !.bounds =
                             <<xll1, adjust(yll, a[2], h0, h1), w, h1>>])
      IN  IF AxaspectDivZero(self) \/ axaspect(self) = Zero
          THEN {Raise("ZeroDivisionError", self), rest}
          ELSE {rest}

set_h(self, h) ==
  LET xll == self.bounds[1]
      yll == self.bounds[2]
      w0  == self.bounds[3]
      h0  == self.bounds[4]
      a   == self.anchor
  IN
  IF AnchorErr(a, 2) # "ok" THEN {Raise(AnchorErr(a, 2), self)}
  ELSE
    LET yll1 == adjust(yll, a[2], h0, h) IN
    IF ~self.locked
    THEN {Ok([self EXCEPT !.bounds = <<xll, yll1, w0, h>>])}
    ELSE
      LET w1   == FMul(h, axaspect(self))
          rest == IF AnchorErr(a, 1) # "ok"
                  THEN Raise(AnchorErr(a, 1), self)
                  ELSE Ok([self EXCEPT !.bounds =
                             <<adjust(xll, a[1], w0, w1), yll1, w1, h>>])
      IN  IF AxaspectDivZero(self)
          THEN {Raise("ZeroDivisionError", self), rest}
          ELSE {rest}

(* Mutant: locking snaps the height to the width. *)
lock_aspect_snap(self, b) ==
  {Ok([self EXCEPT !.locked = b,
                   !.bounds = IF b THEN <<@[1], @[2], @[3], @[3]>> ELSE @])}

lock_aspect(self, b) == {Ok([self EXCEPT !.locked = b])}

set_aspect_ratio(self, A, fix_height) ==
  LET target == FDiv(A, figaspect(self)) IN
  IF fix_height
  THEN set_w(self, FMul(get_h(self), target))
  ELSE (IF target = Zero THEN {Raise("ZeroDivisionError", self)} ELSE {})
       \cup set_h(self, FDiv(get_w(self), target))


----------------------------------------------------------------------------
(* AxPositioningEditor                                                     *)
(* An editor is the record ed = [axes, anchor, figsize]: axes is the       *)
(* OrderedDict as the sequence of its items [name, box] in insertion       *)
(* order, anchor the name in self.anchor.                                  *)

(* PositioningAxes(fig, bounds, lock_aspect, anchor). *)
PositioningAxes(fs, b, lk, pos) ==
  set_anchor_point([bounds |-> b, anchor |-> <<Zero, Zero>>,
                    locked |-> lk, figsize |-> fs], pos)

position_dict == {"ll", "ul", "ur", "lr", "c"}

(* Number of names add_axes tries, and the code point of the first. *)
NameRange == 50

FirstName == 65

(* A str is the sequence of the code points of its characters; chr(c) is  *)
(* the one-character str of code point c.                                  *)
chr(c) == <<c>>

Names(items) == {items[i].name : i \in 1..Len(items)}

(* d[n] = box on an OrderedDict: a present key keeps its place. *)
SetItem(items, n, box) ==
  IF n \in Names(items)
  THEN [i \in 1..Len(items) |->
          IF items[i].name = n THEN [name |-> n, box |-> box] ELSE items[i]]
  ELSE Append(items, [name |-> n, box |-> box])

(* The argument n of add_axes: None or a name. *)
Auto == [given |-> FALSE, name |-> <<>>]

Named(n) == [given |-> TRUE, name |-> n]

(* The loop of add_axes from candidate i on: the first i whose name is not *)
(* in axnames, or NameRange when the loop runs out.                        *)
RECURSIVE FirstFree(_, _)
FirstFree(axnames, i) ==
  IF i >= NameRange THEN NameRange
  ELSE IF chr(FirstName + i) \notin axnames THEN i
  ELSE FirstFree(axnames, i + 1)

(* Mutant: the name is numbered by the size of the collection, as          *)
(* create_axes numbers its boxes.                                          *)
add_axes_count(ed, bnd, n) ==
  LET i == Len(ed.axes) IN
  IF ~n.given /\ i >= NameRange
  THEN {[err |-> "ValueError", ed |-> ed]}
  ELSE LET name == IF n.given THEN n.name ELSE chr(FirstName + i)
       IN  { [err |-> r.err,
              ed  |-> IF r.err = "ok"
                      THEN [ed EXCEPT !.axes = SetItem(@, name, r.self)]
                      ELSE ed] :
             r \in PositioningAxes(ed.figsize, bnd, FALSE, Str(ed.anchor)) }

add_axes(ed, bnd, n) ==
  LET i == FirstFree(Names(ed.axes), 0) IN
  IF ~n.given /\ i >= NameRange
  THEN {[err |-> "ValueError", ed |-> ed]}
  ELSE LET name == IF n.given THEN n.name ELSE chr(FirstName + i)
       IN  { [err |-> r.err,
              ed  |-> IF r.err = "ok"
                      THEN [ed EXCEPT !.axes = SetItem(@, name, r.self)]
                      ELSE ed] :
             r \in PositioningAxes(ed.figsize, bnd, FALSE, Str(ed.anchor)) }

(* self.anchor = pos is written in the body of the loop over the boxes. *)
update_anchor(ed, pos, clicked) ==
  LET res(i) == CHOOSE r \in set_anchor_point(ed.axes[i].box, Str(pos)) : TRUE IN
  IF ~clicked \/ Len(ed.axes) = 0
  THEN {[err |-> "ok", ed |-> ed]}
  ELSE IF res(1).err # "ok"
  THEN {[err |-> res(1).err, ed |-> ed]}
  ELSE {[err |-> "ok",
         ed  |-> [ed EXCEPT
                    !.axes = [i \in 1..Len(@) |->
                                [name |-> @[i].name, box |-> res(i).self]],
                    !.anchor = pos]]}

delete_axes(ed, name) ==
  IF name \notin Names(ed.axes)
  THEN {[err |-> "KeyError", ed |-> ed]}
  ELSE {[err |-> "ok",
         ed  |-> [ed EXCEPT !.axes = SelectSeq(@, LAMBDA e : e.name # name)]]}

(* create_axes names the i-th rectangle chr(65 + i). *)
create_axes(ed, bnds) ==
  [ed EXCEPT !.axes =
     [i \in 1..Len(bnds) |->
        [name |-> chr(FirstName + i - 1),
         box  |-> (CHOOSE r \in PositioningAxes(ed.figsize, bnds[i], FALSE,
                                                Str(ed.anchor)) : TRUE).self]]]


----------------------------------------------------------------------------
(* NumField                                                                *)
(* A field is the record fld = [val, last_valid, text, signals].  A str is *)
(* the sequence of its code points.                                        *)

IsSpace(c) == c = 32

IsDigit(c) == c \in 48..57

RECURSIVE LStrip(_)
LStrip(s) == IF s # <<>> /\ IsSpace(Head(s)) THEN LStrip(Tail(s)) ELSE s

RECURSIVE RStrip(_)
RStrip(s) ==
  IF s # <<>> /\ IsSpace(s[Len(s)]) THEN RStrip(SubSeq(s, 1, Len(s) - 1)) ELSE s

RECURSIVE DigitsValue(_)
DigitsValue(s) ==
  IF s = <<>> THEN 0
  ELSE 10 * DigitsValue(SubSeq(s, 1, Len(s) - 1)) + (s[Len(s)] - 48)

(* int(s) for a str s: surrounding blanks, an optional sign, then digits;  *)
(* anything else is a ValueError.                                          *)
int(s) ==
  LET t      == RStrip(LStrip(s))
      signed == t # <<>> /\ Head(t) \in {43, 45}
      digits == IF signed THEN Tail(t) ELSE t
      valid  == digits # <<>> /\ \A i \in 1..Len(digits) : IsDigit(digits[i])
  IN  IF ~valid THEN [ok |-> FALSE, n |-> 0]
      ELSE [ok |-> TRUE,
            n  |-> IF signed /\ Head(t) = 45
                   THEN 0 - DigitsValue(digits) ELSE DigitsValue(digits)]

RECURSIVE Decimal(_)
Decimal(n) ==
  IF n < 10 THEN <<48 + n>> ELSE Decimal(n \div 10) \o <<48 + (n % 10)>>

(* str(v) for an int v. *)
str(v) == IF v < 0 THEN <<45>> \o Decimal(0 - v) ELSE Decimal(v)

(* A value handed to cast: an int or a str. *)
IntV(n) == [isstr |-> FALSE, n |-> n, s |-> <<>>]

StrV(s) == [isstr |-> TRUE, n |-> 0, s |-> s]

cast(v) == IF v.isstr THEN int(v.s) ELSE [ok |-> TRUE, n |-> v.n]

format(v) == str(v)

FldOk(fld) == [err |-> "ok", fld |-> fld]

FldRaise(e, fld) == [err |-> e, fld |-> fld]

set_value(fld, v) ==
  IF ~cast(v).ok THEN FldRaise("ValueError", fld)
  ELSE FldOk([fld EXCEPT !.val = cast(v).n, !.text = format(cast(v).n)])

check_change(fld) ==
  IF fld.text = format(fld.val) THEN FldOk(fld)
  ELSE IF ~cast(StrV(fld.text)).ok
  THEN FldRaise("ValueError", set_value(fld, IntV(fld.last_valid)).fld)
  ELSE LET v == cast(StrV(fld.text)).n
       IN  FldOk([fld EXCEPT !.val = v, !.last_valid = v,
                             !.signals = Append(@, v)])

(* NumField(v): val = cast(v), set_value(v), last_valid = val. *)
NumField(v) ==
  LET f0 == [val |-> cast(v).n, last_valid |-> 0, text |-> <<>>, signals |-> <<>>]
      f1 == set_value(f0, v).fld
  IN  [f1 EXCEPT !.last_valid = f1.val]

----------------------------------------------------------------------------
(* One box and the calls made on it                                        *)

Self == [bounds |-> bounds, anchor |-> anchor, locked |-> locked,
         figsize |-> figsize]

(* Rectangles a box is constructed with: the test suite's box, non-square  *)
(* boxes, a box of negative width, and boxes of zero height or width.      *)
InitBounds ==
  { <<Q(1, 10), Q(1, 10), Q(4, 5), Q(4, 5)>>,
    <<Zero, Zero, One, Q(1, 2)>>,
    <<Q(1, 10), Q(1, 5), Q(2, 5), Q(4, 5)>>,
    <<One, Zero, Q(-1, 1), Q(1, 2)>>,
    <<Zero, Zero, One, Zero>>,
    <<Zero, Zero, Zero, One>> }

(* Figure sizes in inches (width, height). *)
FigSizes == { <<Q(6, 1), Q(6, 1)>>, <<Q(6, 1), Q(4, 1)>> }

AnchorInputs ==
  { Str("ll"), Str("ul"), Str("ur"), Str("lr"), Str("c"), Str("C"),
    Tuple(<<Q(1, 4), One>>), Tuple(<<Q(2, 1), Q(-1, 1)>>),
    Tuple(<<One, Zero, One>>), Tuple(<<One>>),
    Tuple(<<NonNumeric, NonNumeric>>),
    List(<<Zero, Zero>>), None }

Coords == { Q(1, 2), Q(9, 10) }

Sizes == { Zero, Q(2, 5), One }

Ratios == { Zero, One, Q(3, 2) }

NoCall(op) == [op |-> op, v |-> Zero, pos |-> None, flag |-> FALSE, err |-> "ok"]

(* hist describes the call before the last one when both are the same size *)
(* edit or both lock_aspect: its name, argument and outcome and the bounds *)
(* and lock before it.  NoHist otherwise.                                  *)
NoHist == [op |-> "", v |-> Zero, err |-> "ok",
           bounds |-> <<Zero, Zero, Zero, Zero>>, locked |-> FALSE]

(* No editor: the state of the editor's variables while one box is used.   *)
EdNoCall(op) ==
  [op |-> op, n |-> Auto, bnd |-> <<Zero, Zero, Zero, Zero>>, pos |-> "",
   clicked |-> FALSE, err |-> "ok"]

EdIdle ==
  /\ axes = <<>>
  /\ edAnchor = "c"
  /\ checked = "c"
  /\ edLast = EdNoCall("")
  /\ edPre = [axes |-> <<>>, anchor |-> "c", figsize |-> figsize]

(* No field: the state of the field's variables while a box or an editor   *)
(* is used.                                                                *)
FldNoCall(op) == [op |-> op, v |-> IntV(0), err |-> "ok"]

FldIdle ==
  /\ val = 0
  /\ last_valid = 0
  /\ text = <<48>>
  /\ signals = <<>>
  /\ fldLast = FldNoCall("")
  /\ fldPre = [val |-> 0, last_valid |-> 0, text |-> <<48>>, signals |-> <<>>]

(* __init__ and from_axes: the anchor goes through set_anchor_point, then  *)
(* the bounds are stored.  A constructor that raises yields no box.        *)
Init ==
  \E b \in InitBounds, pos \in AnchorInputs, lk \in BOOLEAN, fs \in FigSizes :
    \E r \in set_anchor_point([bounds |-> b, anchor |-> <<Zero, Zero>>,
                               locked |-> lk, figsize |-> fs], pos) :
      /\ r.err = "ok"
      /\ bounds = b
      /\ anchor = r.self.anchor
      /\ locked = lk
      /\ figsize = fs
      /\ last = [NoCall("__init__") EXCEPT !.pos = pos, !.flag = lk]
      /\ pre = r.self
      /\ hist = NoHist
      /\ steps = 0
      /\ EdIdle
      /\ FldIdle

Call(op, v, pos, flag, outcomes) ==
  /\ steps < MaxSteps
  /\ \E r \in outcomes :
       /\ bounds' = r.self.bounds
       /\ anchor' = r.self.anchor
       /\ locked' = r.self.locked
       /\ figsize' = r.self.figsize
       /\ last' = [op |-> op, v |-> v, pos |-> pos, flag |-> flag, err |-> r.err]
  /\ pre' = Self
  /\ hist' = IF op = last.op /\ op \in {"set_w", "set_h", "lock_aspect"}
             THEN [op |-> last.op, v |-> last.v, err |-> last.err,
                   bounds |-> pre.bounds, locked |-> pre.locked]
             ELSE NoHist
  /\ steps' = steps + 1
  /\ UNCHANGED edVars
  /\ UNCHANGED fldVars

SetAnchorPoint ==
  \E pos \in AnchorInputs :
    Call("set_anchor_point", Zero, pos, FALSE, set_anchor_point(Self, pos))

(* The values written to x include the value just read from x. *)
SetX ==
  \E x \in Coords \cup (IF AnchorErr(anchor, 1) = "ok" THEN {get_x(Self)} ELSE {}) :
    Call("set_x", x, None, FALSE, set_x(Self, x))

SetY ==
  \E y \in Coords \cup (IF AnchorErr(anchor, 2) = "ok" THEN {get_y(Self)} ELSE {}) :
    Call("set_y", y, None, FALSE, set_y(Self, y))

(* The sizes written include the size the box had before the last call. *)
SetW ==
  \E w \in Sizes \cup (IF last.op = "set_w" /\ Finite(pre.bounds[3])
                       THEN {pre.bounds[3]} ELSE {}) :
    Call("set_w", w, None, FALSE, set_w(Self, w))

SetH ==
  \E h \in Sizes \cup (IF last.op = "set_h" /\ Finite(pre.bounds[4])
                       THEN {pre.bounds[4]} ELSE {}) :
    Call("set_h", h, None, FALSE, set_h(Self, h))

LockAspect == \E b \in BOOLEAN : Call("lock_aspect", Zero, None, b, lock_aspect(Self, b))

SetAspectRatio ==
  \E A \in Ratios, fix_height \in BOOLEAN :
    Call("set_aspect_ratio", A, None, fix_height, set_aspect_ratio(Self, A, fix_height))

Next ==
  \/ SetAnchorPoint
  \/ SetX
  \/ SetY
  \/ SetW
  \/ SetH
  \/ LockAspect
  \/ SetAspectRatio

Spec == Init /\ [][Next]_vars

TypeOK ==
  /\ Len(bounds) = 4
  /\ \A i \in 1..4 : IsNumber(bounds[i])
  /\ locked \in BOOLEAN
  /\ steps \in 0..MaxSteps

----------------------------------------------------------------------------
(* One editor and the calls made on it                                     *)

Ed == [axes |-> axes, anchor |-> edAnchor, figsize |-> figsize]

(* Rectangles of the editor's boxes: the test suite's box and the box      *)
(* add_axes_at_position puts at (.5, .5).                                  *)
EdBounds ==
  { <<Q(1, 10), Q(1, 10), Q(4, 5), Q(4, 5)>>,
    <<Q(3, 10), Q(3, 10), Q(2, 5), Q(2, 5)>> }

(* The i-th rectangle handed to the constructor. *)
InitRect(i) ==
  IF i % 2 = 1
  THEN <<Q(1, 10), Q(1, 10), Q(4, 5), Q(4, 5)>>
  ELSE <<Q(3, 10), Q(3, 10), Q(2, 5), Q(2, 5)>>

(* Numbers of rectangles handed to the constructor. *)
InitCounts == {0, 1, 2, NameRange - 1, NameRange}

(* Names passed to add_axes and delete_axes: A, B, r and left. *)
NameInputs == { chr(65), chr(66), chr(114), <<108, 101, 102, 116>> }

(* __init__: self.anchor = 'c', create_axes(bounds), then build() clicks   *)
(* the radio button of self.anchor.                                        *)
InitEditor ==
  \E k \in InitCounts, fs \in FigSizes :
    LET ed0 == [axes |-> <<>>, anchor |-> "c", figsize |-> fs]
        ed1 == create_axes(ed0, [i \in 1..k |-> InitRect(i)])
    IN  \E r \in update_anchor(ed1, ed1.anchor, TRUE) :
          /\ r.err = "ok"
          /\ axes = r.ed.axes
          /\ edAnchor = r.ed.anchor
          /\ checked = ed1.anchor
          /\ edLast = EdNoCall("__init__")
          /\ edPre = r.ed
          /\ figsize = fs
          /\ bounds = <<Zero, Zero, One, One>>
          /\ anchor = <<Zero, Zero>>
          /\ locked = FALSE
          /\ last = NoCall("")
          /\ pre = [bounds |-> <<Zero, Zero, One, One>>, anchor |-> <<Zero, Zero>>,
                    locked |-> FALSE, figsize |-> fs]
          /\ hist = NoHist
          /\ steps = 0
          /\ FldIdle

EdCall(op, n, bnd, pos, clicked, outcomes) ==
  /\ steps < MaxSteps
  /\ \E r \in outcomes :
       /\ axes' = r.ed.axes
       /\ edAnchor' = r.ed.anchor
       /\ edLast' = [op |-> op, n |-> n, bnd |-> bnd, pos |-> pos,
                     clicked |-> clicked, err |-> r.err]
  /\ edPre' = Ed
  /\ steps' = steps + 1
  /\ UNCHANGED boxVars
  /\ UNCHANGED fldVars

AddAxes ==
  \E bnd \in EdBounds, n \in {Auto} \cup {Named(x) : x \in NameInputs} :
    /\ EdCall("add_axes", n, bnd, "", FALSE, add_axes(Ed, bnd, n))
    /\ UNCHANGED checked

(* A click on a radio button checks it and calls update_anchor(pos, True); *)
(* a call with clicked=False leaves the buttons alone.                     *)
UpdateAnchor ==
  \E pos \in position_dict, clicked \in BOOLEAN :
    /\ EdCall("update_anchor", Auto, <<Zero, Zero, Zero, Zero>>, pos, clicked,
              update_anchor(Ed, pos, clicked))
    /\ checked' = IF clicked THEN pos ELSE checked

DeleteAxes ==
  \E name \in NameInputs :
    /\ EdCall("delete_axes", Named(name), <<Zero, Zero, Zero, Zero>>, "", FALSE,
              delete_axes(Ed, name))
    /\ UNCHANGED checked

NextEditor ==
  \/ AddAxes
  \/ UpdateAnchor
  \/ DeleteAxes

SpecEditor == InitEditor /\ [][NextEditor]_vars

----------------------------------------------------------------------------
(* One field and the calls made on it                                      *)

Fld == [val |-> val, last_valid |-> last_valid, text |-> text,
        signals |-> signals]

(* Characters typed: 0, 1, -, blank and x. *)
Keys == {48, 49, 45, 32, 120}

RECURSIVE TextsOfLen(_)
TextsOfLen(n) ==
  IF n = 0 THEN {<<>>}
  ELSE {Append(t, c) : t \in TextsOfLen(n - 1), c \in Keys}

Texts == UNION {TextsOfLen(n) : n \in 0..MaxLen}

FieldValues == {IntV(0), IntV(1), IntV(7), IntV(0 - 1)}

InitField ==
  \E v \in FieldValues, fs \in FigSizes :
    /\ val = NumField(v).val
    /\ last_valid = NumField(v).last_valid
    /\ text = NumField(v).text
    /\ signals = NumField(v).signals
    /\ fldLast = [FldNoCall("__init__") EXCEPT !.v = v]
    /\ fldPre = NumField(v)
    /\ figsize = fs
    /\ bounds = <<Zero, Zero, One, One>>
    /\ anchor = <<Zero, Zero>>
    /\ locked = FALSE
    /\ last = NoCall("")
    /\ pre = [bounds |-> <<Zero, Zero, One, One>>, anchor |-> <<Zero, Zero>>,
              locked |-> FALSE, figsize |-> fs]
    /\ hist = NoHist
    /\ steps = 0
    /\ EdIdle

FldCall(op, v, fldIn, r) ==
  /\ steps < MaxSteps
  /\ val' = r.fld.val
  /\ last_valid' = r.fld.last_valid
  /\ text' = r.fld.text
  /\ signals' = r.fld.signals
  /\ fldLast' = [op |-> op, v |-> v, err |-> r.err]
  /\ fldPre' = fldIn
  /\ steps' = steps + 1
  /\ UNCHANGED boxVars
  /\ UNCHANGED edVars

(* The user replaces the text by t and leaves the field: editingFinished   *)
(* calls check_change.                                                     *)
Edit ==
  \E t \in Texts :
    FldCall("edit", StrV(t), Fld, check_change([Fld EXCEPT !.text = t]))

(* value() calls check_change on the text as it is. *)
Value == FldCall("value", StrV(text), Fld, check_change(Fld))

SetValue ==
  \E v \in FieldValues \cup {StrV(<<49, 48>>), StrV(<<120>>)} :
    FldCall("set_value", v, Fld, set_value(Fld, v))

NextField ==
  \/ Edit
  \/ Value
  \/ SetValue

SpecField == InitField /\ [][NextField]_vars

----------------------------------------------------------------------------
(* Properties                                                              *)

(* An anchor as the interface describes it: a pair of real numbers. *)
WellFormed(a) == Len(a) = 2 /\ Finite(a[1]) /\ Finite(a[2])

(* The box before the last call had real bounds and a well-formed anchor. *)
PreReal == FiniteAll(pre.bounds) /\ WellFormed(pre.anchor)

PreNonZero == pre.bounds[3] # Zero /\ pre.bounds[4] # Zero

TestBox == <<Q(1, 10), Q(1, 10), Q(4, 5), Q(4, 5)>>

(* C1: with the aspect lock on and a box of non-zero width and height,     *)
(* set_w or set_h to a non-zero value leaves the real aspect ratio         *)
(* figaspect * (w/h) equal to what it was before the call.                 *)
C1_LockKeepsAspect ==
  (/\ last.op \in {"set_w", "set_h"}
   /\ pre.locked
   /\ PreReal
   /\ PreNonZero
   /\ last.v # Zero)
  => (last.err = "ok" /\ aspect(Self) = aspect(pre))

(* C2: for a box of non-zero width and height and a non-zero target A,     *)
(* with either value of fix_height and either state of the aspect lock,    *)
(* after set_aspect_ratio(A, fix_height) the real aspect ratio equals A.   *)
C2_SetAspectReachesTarget ==
  (/\ last.op = "set_aspect_ratio"
   /\ PreReal
   /\ PreNonZero
   /\ last.v # Zero)
  => (last.err = "ok" /\ aspect(Self) = last.v)

(* C3: set_anchor_point never changes the stored bounds, whether it        *)
(* succeeds or raises; nothing but the anchor changes.                     *)
C3_AnchorKeepsBounds ==
  last.op = "set_anchor_point"
  => /\ bounds = pre.bounds
     /\ get_w(Self) = get_w(pre)
     /\ get_h(Self) = get_h(pre)
     /\ locked = pre.locked
     /\ figsize = pre.figsize

(* The test suite's box after the anchors c then ur: read at (.9, .9). *)
C3_Witness ==
  /\ last.op = "set_anchor_point"
  /\ last.err = "ok"
  /\ steps = 2
  /\ pre.anchor = posdict.c
  /\ anchor = posdict.ur
  /\ bounds = TestBox
  /\ get_x(pre) = Q(1, 2)
  /\ get_x(Self) = Q(9, 10)
  /\ get_y(Self) = Q(9, 10)

(* C4: for real bounds and an anchor pair (ax, ay), however the anchor was *)
(* set, x reads xll + ax*w, y reads yll + ay*h, w and h read the stored    *)
(* width and height; anchor ll reads the lower-left corner and anchor c    *)
(* the centre.                                                             *)
C4_AnchoredRead ==
  (WellFormed(anchor) /\ FiniteAll(bounds))
  => /\ get_x(Self) = FAdd(bounds[1], FMul(anchor[1], bounds[3]))
     /\ get_y(Self) = FAdd(bounds[2], FMul(anchor[2], bounds[4]))
     /\ get_w(Self) = bounds[3]
     /\ get_h(Self) = bounds[4]
     /\ (anchor = <<Zero, Zero>>
         => get_x(Self) = bounds[1] /\ get_y(Self) = bounds[2])
     /\ (anchor = <<Q(1, 2), Q(1, 2)>>
         => /\ FAdd(get_x(Self), get_x(Self))
                 = FAdd(FAdd(bounds[1], bounds[1]), bounds[3])
            /\ FAdd(get_y(Self), get_y(Self))
                 = FAdd(FAdd(bounds[2], bounds[2]), bounds[4]))

(* An explicit pair set after construction on the test suite's box. *)
C4_Witness ==
  /\ last.op = "set_anchor_point"
  /\ last.err = "ok"
  /\ pre.anchor # anchor
  /\ anchor = <<Q(1, 4), One>>
  /\ bounds = TestBox
  /\ get_x(Self) = Q(3, 10)
  /\ get_y(Self) = Q(9, 10)

(* C5: on a box with real bounds and an anchor pair, set_x(v) succeeds,    *)
(* sets xll to v - ax*w, leaves yll, w, h, the anchor and the lock as they *)
(* were, and x then reads v; set_y(v) likewise with yll = v - ay*h.        *)
C5_SetPosition ==
  /\ (last.op = "set_x" /\ PreReal)
     => /\ last.err = "ok"
        /\ bounds = <<FSub(last.v, FMul(pre.anchor[1], pre.bounds[3])),
                      pre.bounds[2], pre.bounds[3], pre.bounds[4]>>
        /\ get_x(Self) = last.v
        /\ anchor = pre.anchor /\ locked = pre.locked
  /\ (last.op = "set_y" /\ PreReal)
     => /\ last.err = "ok"
        /\ bounds = <<pre.bounds[1],
                      FSub(last.v, FMul(pre.anchor[2], pre.bounds[4])),
                      pre.bounds[3], pre.bounds[4]>>
        /\ get_y(Self) = last.v
        /\ anchor = pre.anchor /\ locked = pre.locked

C5_Witness ==
  /\ last.op = "set_x"
  /\ last.err = "ok"
  /\ PreReal
  /\ locked
  /\ anchor = posdict.c
  /\ last.v = Q(9, 10)
  /\ bounds[1] # pre.bounds[1]

C7_LockKeepsAnchorPoint ==
  (/\ last.op \in {"set_w", "set_h"}
   /\ pre.locked
   /\ PreReal
   /\ PreNonZero)
  => /\ last.err = "ok"
     /\ get_x(Self) = get_x(pre)
     /\ get_y(Self) = get_y(pre)

(* A locked resize that moved the lower-left corner in both directions. *)
C7_Witness ==
  /\ last.op = "set_w"
  /\ last.err = "ok"
  /\ pre.locked
  /\ PreReal
  /\ PreNonZero
  /\ anchor = posdict.ur
  /\ bounds[1] # pre.bounds[1]
  /\ bounds[2] # pre.bounds[2]
  /\ bounds[4] # pre.bounds[4]

(* C8: with the aspect lock off, set_w(w) stores w and                     *)
(* xll + ax*(w_old - w), leaves yll and h as they were and x reads the     *)
(* same; set_h(h) stores h and yll + ay*(h_old - h), leaves xll and w as   *)
(* they were and y reads the same.                                         *)
C8_UnlockedResize ==
  /\ (last.op = "set_w" /\ ~pre.locked /\ PreReal)
     => /\ last.err = "ok"
        /\ bounds = <<FAdd(pre.bounds[1],
                           FMul(pre.anchor[1], FSub(pre.bounds[3], last.v))),
                      pre.bounds[2], last.v, pre.bounds[4]>>
        /\ get_x(Self) = get_x(pre)
  /\ (last.op = "set_h" /\ ~pre.locked /\ PreReal)
     => /\ last.err = "ok"
        /\ bounds = <<pre.bounds[1],
                      FAdd(pre.bounds[2],
                           FMul(pre.anchor[2], FSub(pre.bounds[4], last.v))),
                      pre.bounds[3], last.v>>
        /\ get_y(Self) = get_y(pre)

C8_Witness ==
  /\ last.op = "set_h"
  /\ last.err = "ok"
  /\ ~pre.locked
  /\ PreReal
  /\ anchor = posdict.c
  /\ bounds[2] # pre.bounds[2]
  /\ bounds[4] # pre.bounds[4]
  /\ bounds[1] = pre.bounds[1]

(* C9: for a box of non-zero width and height and a non-zero A, in either  *)
(* state of the aspect lock, set_aspect_ratio(A, fix_height=True) leaves h *)
(* as it was and sets w = h * (A / figaspect); with fix_height=False it    *)
(* leaves w as it was and sets h = w / (A / figaspect).                    *)
C9_FixedDimension ==
  (/\ last.op = "set_aspect_ratio"
   /\ PreReal
   /\ PreNonZero
   /\ last.v # Zero)
  => /\ last.err = "ok"
     /\ IF last.flag
        THEN /\ bounds[4] = pre.bounds[4]
             /\ bounds[3] = FMul(pre.bounds[4], FDiv(last.v, figaspect(pre)))
        ELSE /\ bounds[3] = pre.bounds[3]
             /\ bounds[4] = FDiv(pre.bounds[3], FDiv(last.v, figaspect(pre)))

(* The exceptions of the source under the names of the interface. *)
InvalidAnchorName == "KeyError"

InvalidAnchorType == "TypeError"

(* C10: set_anchor_point raises InvalidAnchorName for a string that is not *)
(* one of ll, ul, ur, lr, c, and InvalidAnchorType for a value that is not *)
(* a string and not a tuple of two numbers; when it raises, the anchor and *)
(* the bounds are as before.                                               *)
C10_InvalidAnchorRejected ==
  last.op = "set_anchor_point"
  => /\ (last.pos.kind = "str" /\ last.pos.name \notin {"ll", "ul", "ur", "lr", "c"})
        => last.err = InvalidAnchorName
     /\ (/\ last.pos.kind # "str"
         /\ ~(/\ last.pos.kind = "tuple"
              /\ Len(last.pos.elems) = 2
              /\ IsNumber(last.pos.elems[1])
              /\ IsNumber(last.pos.elems[2])))
        => last.err = InvalidAnchorType
     /\ last.err # "ok" => (anchor = pre.anchor /\ bounds = pre.bounds)

(* The exception a division by a zero size raises in the source. *)
DegenerateBoxError == "ZeroDivisionError"

(* C11: with the aspect lock on and a box of zero height or zero width,    *)
(* set_w and set_h raise DegenerateBoxError and the bounds after the call  *)
(* equal the bounds before it.                                             *)
C11_DegenerateRejected ==
  (/\ last.op \in {"set_w", "set_h"}
   /\ pre.locked
   /\ PreReal
   /\ (pre.bounds[3] = Zero \/ pre.bounds[4] = Zero))
  => (last.err = DegenerateBoxError /\ bounds = pre.bounds)

(* C12: set_anchor_point accepts a pair of real numbers outside [0, 1]     *)
(* without raising and stores it; x and y then read xll + ax*w and         *)
(* yll + ay*h.                                                             *)
C12_AnchorOutsideUnit ==
  (/\ last.op = "set_anchor_point"
   /\ last.pos.kind = "tuple"
   /\ WellFormed(last.pos.elems)
   /\ FiniteAll(bounds))
  => /\ last.err = "ok"
     /\ anchor = last.pos.elems
     /\ get_x(Self) = FAdd(bounds[1], FMul(last.pos.elems[1], bounds[3]))
     /\ get_y(Self) = FAdd(bounds[2], FMul(last.pos.elems[2], bounds[4]))

(* The anchor (2, -1) on the test suite's box reads (1.7, -0.7). *)
C12_Witness ==
  /\ last.op = "set_anchor_point"
  /\ last.pos = Tuple(<<Q(2, 1), Q(-1, 1)>>)
  /\ last.err = "ok"
  /\ pre.anchor = posdict.c
  /\ bounds = TestBox
  /\ get_x(Self) = Q(17, 10)
  /\ get_y(Self) = Q(-7, 10)

(* C13: lock_aspect(b) succeeds and changes nothing but the lock flag,     *)
(* which becomes b; bounds and anchor are as before, also when the call    *)
(* repeats or reverses an earlier lock_aspect.                             *)
C13_LockOnlyFlag ==
  last.op = "lock_aspect"
  => /\ last.err = "ok"
     /\ locked = last.flag
     /\ bounds = pre.bounds
     /\ anchor = pre.anchor
     /\ figsize = pre.figsize

(* A lock switched on and off again on a non-square box. *)
C13_Witness ==
  /\ last.op = "lock_aspect"
  /\ hist.op = "lock_aspect"
  /\ ~locked
  /\ pre.locked
  /\ ~hist.locked
  /\ bounds[3] # bounds[4]
  /\ bounds = hist.bounds

DuplicateNameError == "DuplicateNameError"

(* C14: add_axes with an explicit name that is already a key of the        *)
(* collection raises DuplicateNameError and leaves the collection as it    *)
(* was.                                                                    *)
C14_DuplicateRejected ==
  (/\ edLast.op = "add_axes"
   /\ edLast.n.given
   /\ edLast.n.name \in Names(edPre.axes))
  => (edLast.err = DuplicateNameError /\ axes = edPre.axes)

(* C15: after update_anchor(pos, clicked=True) the editor's anchor is pos  *)
(* and every box has anchor pos, also when the collection was empty; a box *)
(* added by add_axes gets the editor's anchor; and in every state all      *)
(* boxes have the anchor selected last.                                    *)
C15_AnchorSelected ==
  /\ (edLast.op = "update_anchor" /\ edLast.clicked)
     => /\ edLast.err = "ok"
        /\ edAnchor = edLast.pos
        /\ \A i \in 1..Len(axes) : axes[i].box.anchor = posdict[edLast.pos]
  /\ \A i \in 1..Len(axes) : axes[i].box.anchor = posdict[checked]

(* C17: add_axes without a name takes the first of chr(65) .. chr(114)     *)
(* that is not a key of the collection: the collection grows by that one   *)
(* item and its other items are as before; when all 50 names are keys it   *)
(* raises ValueError and the collection is as before.                      *)
C17_AutoName ==
  (edLast.op = "add_axes" /\ ~edLast.n.given)
  => LET used == Names(edPre.axes)
         cand == {i \in 0..(NameRange - 1) : <<FirstName + i>> \notin used}
     IN  IF cand = {}
         THEN edLast.err = "ValueError" /\ axes = edPre.axes
         ELSE /\ edLast.err = "ok"
              /\ Len(axes) = Len(edPre.axes) + 1
              /\ SubSeq(axes, 1, Len(edPre.axes)) = edPre.axes
              /\ axes[Len(axes)].name \notin used
              /\ \E i \in cand :
                   /\ axes[Len(axes)].name = <<FirstName + i>>
                   /\ \A j \in cand : i <= j

(* Fifty boxes, B deleted, and the next box is named B again. *)
C17_Witness ==
  /\ edLast.op = "add_axes"
  /\ ~edLast.n.given
  /\ edLast.err = "ok"
  /\ Len(edPre.axes) = NameRange - 1
  /\ <<65>> \in Names(edPre.axes)
  /\ <<114>> \in Names(edPre.axes)
  /\ axes[Len(axes)].name = <<66>>

(* C16: when the text of an edit cannot be cast, check_change raises       *)
(* ValueError, emits nothing, and value and text are again those the field *)
(* had before the edit, also when set_value installed them; when the text  *)
(* casts and differs from the formatted value, val and last_valid become   *)
(* the cast value and changed is emitted once with it.                     *)
C16_InvalidEditReverts ==
  (fldLast.op = "edit" /\ fldLast.v.s # format(fldPre.val))
  => IF ~int(fldLast.v.s).ok
     THEN /\ fldLast.err = "ValueError"
          /\ val = fldPre.val
          /\ text = format(fldPre.val)
          /\ signals = fldPre.signals
     ELSE /\ fldLast.err = "ok"
          /\ val = int(fldLast.v.s).n
          /\ last_valid = int(fldLast.v.s).n
          /\ signals = Append(fldPre.signals, int(fldLast.v.s).n)

====
